---- MODULE Spec2Model ----
(***************************************************************************)
(* A model of get_image_from_flickr.py: one run of main, from the parsed   *)
(* arguments to the end of the run.  Strings are sequences of characters   *)
(* (format literals are single tokens); the search server and the image    *)
(* servers are inputs chosen at each request.                              *)
(***************************************************************************)
EXTENDS Integers, Sequences, FiniteSets, TLC

VARIABLES
    args,          \* parsed command line: inputfile, word, start_page, max_page, originalsize
    pc,            \* position of the run
    err,           \* the exception that ended the run ("none" while it runs)
    word_list,     \* execute_file_search: lines read by load_word_list
    widx,          \* execute_file_search: index of the current line
    word,          \* execute_word_search: the search word
    output_dir,    \* execute_word_search: the directory the word's files go to
    page,          \* execute_word_search: the page to request
    response,      \* execute_search_query: the parsed search response
    url_list,      \* execute_search_query: image_url_list
    count,         \* execute_search_query: downloads completed in the for loop
    http_error,    \* execute_search_query: the except clause of line 210 ran in the last page
    dirs,          \* directories that exist
    files,         \* files that exist
    reqs,          \* history: search requests issued for the current word
    json_written,  \* history: JSON paths written for the current word
    log            \* history: events of the page in progress

vars == <<args, pc, err, word_list, widx, word, output_dir, page, response,
          url_list, count, http_error, dirs, files, reqs, json_written, log>>

-----------------------------------------------------------------------------
(* Bounds of the model.                                                    *)

\* longest photo list of a search response
MaxPhotos == 2
\* largest max_page - start_page of a run
MaxSpan == 2

(* Program constants.                                                      *)

\* execute_word_search: start pages from here on run a single query
QuirkPage == 8
\* required positional parameters of execute_word_search
WordSearchParams == 7
\* arguments main passes to execute_word_search
MainCallArgs == 3
\* parsepargs defaults
DefaultStartPage == 1
DefaultMaxPage == 8
\* download_image: the only status treated as success
StatusOk == 200

-----------------------------------------------------------------------------
(* Strings.                                                                *)

None == <<"None">>

Whitespace == {" ", "\t", "\n", "\r"}

RECURSIVE LStripSpace(_)
LStripSpace(s) ==
    IF s # <<>> /\ Head(s) \in Whitespace THEN LStripSpace(Tail(s)) ELSE s

\* re.sub(r'\s+', '_', s): every maximal run of whitespace becomes one "_"
RECURSIVE SubSpaces(_)
SubSpaces(s) ==
    IF s = <<>> THEN <<>>
    ELSE IF Head(s) \in Whitespace
         THEN <<"_">> \o SubSpaces(LStripSpace(Tail(s)))
         ELSE <<Head(s)>> \o SubSpaces(Tail(s))

\* s.rstrip('\n')
RECURSIVE RStripNewline(_)
RStripNewline(s) ==
    IF s # <<>> /\ s[Len(s)] = "\n"
    THEN RStripNewline(SubSeq(s, 1, Len(s) - 1))
    ELSE s

\* file.readlines(): the lines of the content, each with its terminator
RECURSIVE ReadLines(_, _)
ReadLines(content, line) ==
    IF content = <<>> THEN (IF line = <<>> THEN <<>> ELSE <<line>>)
    ELSE IF Head(content) = "\n"
         THEN <<Append(line, "\n")>> \o ReadLines(Tail(content), <<>>)
         ELSE ReadLines(Tail(content), Append(line, Head(content)))

load_word_list(content) == ReadLines(content, <<>>)

\* url.split('/')[-1]
RECURSIVE LastSegment(_)
LastSegment(url) ==
    IF \E i \in 1..Len(url) : url[i] = "/"
    THEN LastSegment(Tail(url))
    ELSE url

\* "{output_dir}/{name}"
Join(dir, name) == dir \o <<"/">> \o name

\* the raw response named without its page
JsonFilePathNoPage(dir, w, p) ==
    Join(dir, SubSpaces(w) \o <<".json">>)

\* "{output_dir}/{word}_{page}.json"
JsonFilePath(dir, w, p) ==
    Join(dir, SubSpaces(w) \o <<"_", ToString(p), ".json">>)

\* "{output_dir}/{word}_{page}_url.json"
JsonUrlListPath(dir, w, p) ==
    Join(dir, SubSpaces(w) \o <<"_", ToString(p), "_url.json">>)

\* "{output_dir}/{file_name}" with file_name the last segment of the URL
ImageFilePath(dir, url) == Join(dir, LastSegment(url))

\* execute_file_search: "{output_dir}/{word}" for one line of the word list
OutputDirName(out, line) == Join(out, SubSpaces(RStripNewline(line)))

-----------------------------------------------------------------------------
(* Inputs.                                                                 *)

Url(host, name) == <<"http:", "/", "/", host, "/", name>>

\* photo records a search response can list
PhotoOnlyM == [id |-> "1", url_m |-> Url("x", "a.jpg")]
PhotoNoUrl == [id |-> "2"]
PhotoX == [id |-> "3", url_o |-> Url("x", "o.jpg"), url_m |-> Url("x", "m.jpg")]
PhotoY == [id |-> "4", url_o |-> Url("y", "o.jpg"), url_m |-> Url("y", "m.jpg")]
Photos == {PhotoOnlyM, PhotoNoUrl, PhotoX, PhotoY}

PhotoLists == UNION {[1..n -> Photos] : n \in 0..MaxPhotos}

\* values a response reports as photos.page and photos.pages
ReportedPages == {1, 2}

WellFormedResponses ==
    {[photos |-> [photo |-> l, page |-> p, pages |-> q]] :
        l \in PhotoLists, p \in ReportedPages, q \in ReportedPages}

\* a JSON answer without the photos object
FailResponse == [stat |-> "fail"]

Responses == WellFormedResponses \cup {FailResponse}

NoResponse == [stat |-> "none"]

\* statuses an image server answers
Statuses == {StatusOk, 404}

\* contents of the word list file
FileCatDog == <<"c", "a", "t", "\n", " ", "d", "o", "g", "\n">>
FileDogDog == <<" ", "d", "o", "g", "\n", "\t", "d", "o", "g", "\n">>
FileCatCat == <<"c", "a", "t", "\n", "c", "a", "t", "\n">>
WordFiles == {FileCatDog, FileDogDog, FileCatCat}

OutputDefault == <<".", "/", "download">>

StartPages == {DefaultStartPage, QuirkPage - 1, QuirkPage}

\* runs started with -i
FileArgs ==
    {[inputfile |-> f, word |-> None, output |-> OutputDefault,
      start_page |-> s, max_page |-> s + d, originalsize |-> o] :
        f \in WordFiles, s \in StartPages, d \in (-1)..MaxSpan, o \in BOOLEAN}

\* runs started with -w
WordArgs ==
    {[inputfile |-> None, word |-> <<"c", "a", "t">>, output |-> OutputDefault,
      start_page |-> s, max_page |-> m, originalsize |-> o] :
        s \in StartPages \cup {DefaultStartPage},
        m \in {DefaultMaxPage, DefaultMaxPage + MaxSpan}, o \in BOOLEAN}

-----------------------------------------------------------------------------
(* FlickrImageSearcher.                                                    *)

\* create_url_list: one entry per record that has id, url_o and url_m; the
\* KeyError of any other record is caught and the record left out
RECURSIVE create_url_list_of(_)
create_url_list_of(photo) ==
    IF photo = <<>> THEN <<>>
    ELSE LET ph == Head(photo)
             rest == create_url_list_of(Tail(photo))
         IN  IF {"id", "url_o", "url_m"} \subseteq DOMAIN ph
             THEN <<[key |-> ph.id, url_o |-> ph.url_o, url_m |-> ph.url_m]>> \o rest
             ELSE rest

create_url_list(resp) == create_url_list_of(resp.photos.photo)

\* download_image: HttpError unless the status is 200
DownloadRaises(status) == ~(status = StatusOk)

-----------------------------------------------------------------------------
(* execute_search_query and execute_word_search.                           *)

\* line 196: the URL to download for one entry of the list
TargetUrl(image_url) ==
    IF args.originalsize THEN image_url.url_o ELSE image_url.url_m

\* the page error raised only past the last page
NoMorePagesStrict(resp) == resp.photos.page > resp.photos.pages

\* line 214: the condition that raises FlickrImageSearcherPageError
NoMorePages(resp) == resp.photos.page >= resp.photos.pages

\* the single query taken only past the quirk page
SinglePageAbove(start_page) == start_page > QuirkPage

\* line 229: the start pages for which one query is run outside the loop
SinglePage(start_page) == start_page >= QuirkPage

\* line 240: whether range(start_page, max_page) yields p
InRange(p) == args.start_page <= p /\ p < args.max_page

Event(kind, url, path) == [kind |-> kind, url |-> url, path |-> path]

Init ==
    /\ args \in FileArgs \cup WordArgs
    /\ pc = "main"
    /\ err = "none"
    /\ word_list = <<>>
    /\ widx = 0
    /\ word = <<>>
    /\ output_dir = <<>>
    /\ page = 0
    /\ response = NoResponse
    /\ url_list = <<>>
    /\ count = 0
    /\ http_error = FALSE
    /\ dirs = {}
    /\ files = {}
    /\ reqs = <<>>
    /\ json_written = <<>>
    /\ log = <<>>

\* main with -i: the output directory is made and the word list read
main_inputfile ==
    /\ pc = "main"
    /\ args.inputfile # None
    /\ dirs' = dirs \cup {args.output}
    /\ word_list' = load_word_list(args.inputfile)
    /\ widx' = 1
    /\ pc' = "file_search"
    /\ UNCHANGED <<args, err, word, output_dir, page, response, url_list, count,
                   http_error, files, reqs, json_written, log>>

\* main with -w: execute_word_search is called with three arguments
main_word ==
    /\ pc = "main"
    /\ args.inputfile = None
    /\ dirs' = dirs \cup {args.output}
    /\ IF MainCallArgs < WordSearchParams
       THEN /\ pc' = "error"
            /\ err' = "TypeError"
            /\ UNCHANGED <<word, output_dir, page>>
       ELSE /\ word' = args.word
            /\ output_dir' = args.output
            /\ page' = args.start_page
            /\ pc' = IF SinglePage(args.start_page) \/ InRange(args.start_page)
                     THEN "request" ELSE "word_done"
            /\ err' = err
    /\ UNCHANGED <<args, word_list, widx, response, url_list, count, http_error,
                   files, reqs, json_written, log>>

\* execute_file_search: one iteration of the loop over the word list, up to
\* the first request of execute_word_search
execute_file_search ==
    /\ pc = "file_search"
    /\ IF widx <= Len(word_list)
       THEN /\ dirs' = dirs \cup {OutputDirName(args.output, word_list[widx])}
            /\ output_dir' = OutputDirName(args.output, word_list[widx])
            /\ word' = RStripNewline(word_list[widx])
            /\ page' = args.start_page
            /\ pc' = IF SinglePage(args.start_page) \/ InRange(args.start_page)
                     THEN "request" ELSE "word_done"
       ELSE /\ pc' = "done"
            /\ UNCHANGED <<dirs, output_dir, word, page>>
    /\ reqs' = <<>>
    /\ json_written' = <<>>
    /\ http_error' = FALSE
    /\ UNCHANGED <<args, err, word_list, widx, response, url_list, count, files, log>>

\* execute_word_search returned: the loop over the word list goes on
word_search_return ==
    /\ pc = "word_done"
    /\ widx' = widx + 1
    /\ pc' = "file_search"
    /\ UNCHANGED <<args, err, word_list, word, output_dir, page, response, url_list,
                   count, http_error, dirs, files, reqs, json_written, log>>

\* lines 174-175: the payload is posted and the answer parsed
invoke_request ==
    /\ pc = "request"
    /\ \E r \in Responses :
        /\ response' = r
        /\ reqs' = Append(reqs,
              [page |-> page,
               exhausted |-> IF "photos" \in DOMAIN r
                             THEN ~(r.photos.page < r.photos.pages) ELSE TRUE])
    /\ log' = <<Event("request", <<>>, <<>>)>>
    /\ http_error' = FALSE
    /\ pc' = "dump_response"
    /\ UNCHANGED <<args, err, word_list, widx, word, output_dir, page, url_list,
                   count, dirs, files, json_written>>

\* lines 177-183: the raw response is written
dump_response ==
    /\ pc = "dump_response"
    /\ LET path == JsonFilePath(output_dir, word, page) IN
        /\ files' = files \cup {path}
        /\ json_written' = Append(json_written, path)
        /\ log' = Append(log, Event("json", <<>>, path))
    /\ pc' = "dump_url_list"
    /\ UNCHANGED <<args, err, word_list, widx, word, output_dir, page, response,
                   url_list, count, http_error, dirs, reqs>>

\* the downloads started before the URL list is written
dump_url_list_late ==
    /\ pc = "dump_url_list"
    /\ IF "photos" \in DOMAIN response
       THEN /\ url_list' = create_url_list(response)
            /\ pc' = "download"
            /\ err' = err
       ELSE /\ pc' = "error"
            /\ err' = "KeyError"
            /\ UNCHANGED url_list
    /\ count' = 0
    /\ UNCHANGED <<args, word_list, widx, word, output_dir, page, response,
                   http_error, dirs, files, reqs, json_written, log>>

\* lines 185-192: the URL list is made and written; a response without
\* photos raises KeyError, which nothing catches
dump_url_list ==
    /\ pc = "dump_url_list"
    /\ IF "photos" \in DOMAIN response
       THEN LET path == JsonUrlListPath(output_dir, word, page) IN
            /\ url_list' = create_url_list(response)
            /\ files' = files \cup {path}
            /\ json_written' = Append(json_written, path)
            /\ log' = Append(log, Event("url_json", <<>>, path))
            /\ pc' = "download"
            /\ err' = err
       ELSE /\ pc' = "error"
            /\ err' = "KeyError"
            /\ UNCHANGED <<url_list, files, json_written, log>>
    /\ count' = 0
    /\ UNCHANGED <<args, word_list, widx, word, output_dir, page, response,
                   http_error, dirs, reqs>>

\* lines 195-209: the next image is downloaded and stored
download_stored ==
    /\ pc = "download"
    /\ count < Len(url_list)
    /\ \E status \in Statuses :
        /\ ~DownloadRaises(status)
        /\ LET url == TargetUrl(url_list[count + 1])
               path == ImageFilePath(output_dir, url)
           IN  /\ files' = files \cup {path}
               /\ log' = Append(log, Event("download", url, path))
    /\ count' = count + 1
    /\ UNCHANGED <<args, pc, err, word_list, widx, word, output_dir, page, response,
                   url_list, http_error, dirs, reqs, json_written>>

\* the HttpError left to end the word's search
download_failed_ends_word ==
    /\ pc = "download"
    /\ count < Len(url_list)
    /\ \E status \in Statuses :
        /\ DownloadRaises(status)
        /\ log' = <<>>
    /\ http_error' = TRUE
    /\ pc' = "word_done"
    /\ response' = NoResponse
    /\ url_list' = <<>>
    /\ count' = 0
    /\ UNCHANGED <<args, err, word_list, widx, word, output_dir, page, dirs, files,
                   reqs, json_written>>

\* lines 131-138 and 210-212: download_image raises HttpError, which the
\* except clause around the for loop catches
download_failed ==
    /\ pc = "download"
    /\ count < Len(url_list)
    /\ \E status \in Statuses :
        /\ DownloadRaises(status)
        /\ log' = Append(log, Event("download", TargetUrl(url_list[count + 1]), <<>>))
    /\ http_error' = TRUE
    /\ pc' = "page_check"
    /\ UNCHANGED <<args, err, word_list, widx, word, output_dir, page, response,
                   url_list, count, dirs, files, reqs, json_written>>

\* line 195: the for loop has gone through the list
download_end ==
    /\ pc = "download"
    /\ count = Len(url_list)
    /\ pc' = "page_check"
    /\ UNCHANGED <<args, err, word_list, widx, word, output_dir, page, response,
                   url_list, count, http_error, dirs, files, reqs, json_written, log>>

\* lines 214-215 and what execute_word_search does with the outcome: past
\* the quirk page nothing catches the page error; in the loop it breaks
page_check ==
    /\ pc = "page_check"
    /\ IF NoMorePages(response)
       THEN IF SinglePage(args.start_page)
            THEN pc' = "error" /\ err' = "PageError" /\ page' = page
            ELSE pc' = "word_done" /\ err' = err /\ page' = page
       ELSE IF SinglePage(args.start_page)
            THEN pc' = "word_done" /\ err' = err /\ page' = page
            ELSE /\ page' = page + 1
                 /\ pc' = IF InRange(page + 1) THEN "request" ELSE "word_done"
                 /\ err' = err
    /\ response' = NoResponse
    /\ url_list' = <<>>
    /\ count' = 0
    /\ log' = <<>>
    /\ UNCHANGED <<args, word_list, widx, word, output_dir, http_error, dirs, files,
                   reqs, json_written>>

Next ==
    \/ main_inputfile
    \/ main_word
    \/ execute_file_search
    \/ word_search_return
    \/ invoke_request
    \/ dump_response
    \/ dump_url_list
    \/ download_stored
    \/ download_failed
    \/ download_end
    \/ page_check

Spec == Init /\ [][Next]_vars

-----------------------------------------------------------------------------
(* Properties.                                                             *)

Last(s) == s[Len(s)]

Downloads(l) == {i \in DOMAIN l : l[i].kind = "download"}

LoopMode == args.inputfile # None /\ args.start_page < QuirkPage

QuirkMode == args.inputfile # None /\ args.start_page >= QuirkPage

\* C1: when the downloads of a page have ended, every target of the download
\* list has been attempted, whichever targets failed.
C1_EveryTargetAttempted ==
    pc = "page_check" => Cardinality(Downloads(log)) = Len(url_list)

\* C2: with a start page below 8 the requests of a word are for the pages
\* start_page, start_page + 1, ..., there are at most max_page - start_page of
\* them (none when max_page <= start_page), and none follows a response that
\* reported page >= pages.
C2_LoopRequests ==
    LoopMode =>
        /\ Len(reqs) <= IF args.max_page > args.start_page
                        THEN args.max_page - args.start_page ELSE 0
        /\ \A i \in DOMAIN reqs : reqs[i].page = args.start_page + i - 1
        /\ \A i \in DOMAIN reqs : i < Len(reqs) => ~reqs[i].exhausted

C2_Witness ==
    /\ LoopMode
    /\ pc = "word_done"
    /\ reqs # <<>>
    /\ Last(reqs).exhausted
    /\ Len(reqs) < args.max_page - args.start_page

\* C3: with a start page of 8 or more a word is searched with exactly one
\* request, for page start_page, whatever max_page is and whatever the
\* response reports.
C3_SingleRequest ==
    QuirkMode =>
        /\ Len(reqs) <= 1
        /\ \A i \in DOMAIN reqs : reqs[i].page = args.start_page
        /\ (pc = "word_done" \/ (pc = "error" /\ err = "PageError"))
              => Len(reqs) = 1

C3_Witness ==
    /\ QuirkMode
    /\ pc = "word_done"
    /\ args.max_page < args.start_page
    /\ Len(reqs) = 1

\* C4: the page error never leaves execute_word_search, so it never ends
\* the run.
C4_PageErrorAbsorbed == ~(pc = "error" /\ err = "PageError")

\* C5: the download list has, in response order, one entry for every photo
\* record that has an id and the medium URL, with that id and that URL.
C5_EntryPerUrlRecord ==
    pc = "download" =>
        LET has == SelectSeq(response.photos.photo,
                             LAMBDA ph : {"id", "url_m"} \subseteq DOMAIN ph)
        IN  /\ Len(url_list) = Len(has)
            /\ \A i \in DOMAIN has :
                  /\ i \in DOMAIN url_list
                  /\ url_list[i].key = has[i].id
                  /\ url_list[i].url_m = has[i].url_m

\* C6: a run started with a single search word does not end in an error
\* before its first search request.
C6_WordRunRequests ==
    ~(args.inputfile = None /\ pc = "error" /\ reqs = <<>>)

\* C7: for the word list "cat\n dog\n" a finished run has made exactly the
\* two subdirectories cat and dog under the output directory.
C7_CatDogDirectories ==
    (args.inputfile = FileCatDog /\ pc = "done") =>
        dirs \ {args.output} =
            {Join(args.output, <<"c", "a", "t">>), Join(args.output, <<"d", "o", "g">>)}

\* C8: a page goes request, raw JSON, URL-list JSON, downloads, page check:
\* both JSON files are written before the first download, the downloads are
\* attempted one at a time in list order, the page check comes only when the
\* downloading has ended, and no request is issued while a page is in progress.
C8_PageOrder ==
    /\ pc = "request" => log = <<>>
    /\ pc = "dump_response" => Len(log) = 1
    /\ pc = "dump_url_list" => Len(log) = 2
    /\ pc = "download" => Len(log) = 3 + count /\ ~http_error
    /\ pc = "page_check" =>
          IF http_error
          THEN Len(log) = 4 + count /\ Last(log).path = <<>>
          ELSE Len(log) = 3 + count /\ count = Len(url_list)
    /\ \A i \in DOMAIN log :
          /\ i = 1 => log[i].kind = "request"
          /\ i = 2 => /\ log[i].kind = "json"
                      /\ log[i].path = JsonFilePath(output_dir, word, page)
          /\ i = 3 => /\ log[i].kind = "url_json"
                      /\ log[i].path = JsonUrlListPath(output_dir, word, page)
          /\ i > 3 => /\ log[i].kind = "download"
                      /\ i - 3 \in DOMAIN url_list
                      /\ log[i].url = TargetUrl(url_list[i - 3])
                      /\ {log[2].path, log[3].path} \subseteq files

C8_Witness ==
    /\ pc = "page_check"
    /\ Len(reqs) = 2
    /\ Cardinality(Downloads(log)) = 2
    /\ ~http_error

WrittenInStep ==
    IF log' # log /\ log' # <<>> /\ Last(log').path # <<>>
    THEN {Last(log').path} ELSE {}

\* C9: no file path written earlier in the run is written again.
C9_WriteOnce == [][WrittenInStep \cap files = {}]_vars

\* C9, amended: during the search of one word no JSON path is written twice.
C9_JsonOncePerWord ==
    \A i, j \in DOMAIN json_written :
        i # j => json_written[i] # json_written[j]

C9_Witness ==
    /\ args.inputfile = FileCatCat
    /\ widx = 2
    /\ Len(json_written) = 4
    /\ \A i \in DOMAIN json_written : json_written[i] \in files

\* C10: with a start page below 8, whether or not a download of the last
\* page failed, the next page is requested only when the last response
\* reported page < pages and the next page is below max_page, and the search
\* of the word stops only when it reported page >= pages or the next page is
\* not below max_page.
C10_FailureKeepsDecision ==
    (LoopMode /\ reqs # <<>>) =>
        /\ pc = "request" =>
              /\ ~Last(reqs).exhausted
              /\ page = Last(reqs).page + 1
              /\ page < args.max_page
        /\ pc = "word_done" =>
              \/ Last(reqs).exhausted
              \/ Last(reqs).page + 1 >= args.max_page

C10_Witness ==
    /\ LoopMode
    /\ reqs # <<>>
    /\ http_error
    /\ pc = "request"

====
